---- MODULE Spec2Model ----
(***************************************************************************)
(* The disaster-response pipeline: the ETL program (data/process_data.py)  *)
(* and the training program (models/train_classifier.py).                  *)
(*                                                                         *)
(* A text is a sequence of one-character strings, so that str.split,       *)
(* x[:-2] and .str[-1] are computed as the code computes them.  A          *)
(* dataframe is a record [cols, rows]: the column labels in order and the  *)
(* rows in order, each row a tuple with one value per column.  The row     *)
(* index is left out: load_data's merge gives a unique index, clean_data   *)
(* derives `categories` from `df`, so pd.concat(axis=1) pairs row k of     *)
(* one with row k of the other.                                            *)
(***************************************************************************)
EXTENDS Integers, Sequences

\* ------------------------------------------------------------------ bounds
MaxMsgRows == 1
MaxCatRows == 2
MaxPriorRows == 2

\* ------------------------------------------------- program constants
NumCategories == 36
NumBaseCols == 4
ETLArgc == 4
TrainArgc == 3

\* ------------------------------------------------------------ texts
S_id == <<"i", "d">>
S_message == <<"m", "e", "s", "s", "a", "g", "e">>
S_original == <<"o", "r", "i", "g", "i", "n", "a", "l">>
S_genre == <<"g", "e", "n", "r", "e">>
S_categories == <<"c", "a", "t", "e", "g", "o", "r", "i", "e", "s">>
S_related == <<"r", "e", "l", "a", "t", "e", "d">>

DigitChars == <<"0", "1", "2", "3", "4", "5", "6", "7", "8", "9">>

\* pandas' missing value in an object column (None / NaN): no text equals it
NoneValue == <<"<None>">>

\* Python's str.split(sep): the pieces between the separators, [""] for ""
RECURSIVE Split(_, _)
Split(s, sep) ==
  IF \A i \in 1..Len(s) : s[i] # sep
  THEN <<s>>
  ELSE LET i == CHOOSE k \in 1..Len(s) :
                  s[k] = sep /\ \A j \in 1..(k - 1) : s[j] # sep
       IN <<SubSeq(s, 1, i - 1)>> \o Split(SubSeq(s, i + 1, Len(s)), sep)

\* Python's x[:-2]
StripLast2(x) == SubSeq(x, 1, Len(x) - 2)

\* pandas' .str[-1]: the last character, NaN for a missing value or ""
LastChar(x) ==
  IF x = NoneValue \/ x = <<>> THEN NoneValue ELSE <<x[Len(x)]>>

\* Python's int(c) is defined on the digits (and raises on the rest)
IsDigit(c) == \E d \in 1..Len(DigitChars) : c = <<DigitChars[d]>>

\* a variant that takes the digit's place in "0123456789" for its value
ParseIntOffByOne(c) == CHOOSE d \in 1..Len(DigitChars) : c = <<DigitChars[d]>>

ParseInt(c) == (CHOOSE d \in 1..Len(DigitChars) : c = <<DigitChars[d]>>) - 1

\* --------------------------------------------------------- dataframes
\* no dataframe, no table: every dataframe of the program has columns
NoDF == [cols |-> <<>>, rows |-> <<>>]

Max(S) == CHOOSE m \in S : \A x \in S : x <= m

ColumnPositions(df, name) == {i \in 1..Len(df.cols) : df.cols[i] = name}

\* DataFrame.drop_duplicates: the first of each group of equal rows is kept
RECURSIVE DedupRows(_)
DedupRows(rows) ==
  IF rows = <<>>
  THEN <<>>
  ELSE LET n == Len(rows)
           init == SubSeq(rows, 1, n - 1)
       IN IF \E j \in 1..(n - 1) : rows[j] = rows[n]
          THEN DedupRows(init)
          ELSE Append(DedupRows(init), rows[n])

\* a variant that keeps every row
DropDuplicatesIdentity(df) == df

DropDuplicates(df) == [df EXCEPT !.rows = DedupRows(df.rows)]

\* pd.merge(messages, categories, on="id"): inner join, in the order of the
\* left rows, each with its matching right rows in their order
RECURSIVE MergeRows(_, _)
MergeRows(left, right) ==
  IF left = <<>>
  THEN <<>>
  ELSE LET l == left[1]
           matches == SelectSeq(right, LAMBDA r : r[1] = l[1])
       IN [k \in 1..Len(matches) |-> Append(l, matches[k][2])]
          \o MergeRows(Tail(left), right)

MessagesCols == <<S_id, S_message, S_original, S_genre>>

Merge(messages, categories) ==
  [cols |-> Append(MessagesCols, S_categories),
   rows |-> MergeRows(messages, categories)]

\* process_data.load_data
LoadData(messages, categories) == DropDuplicates(Merge(messages, categories))

\* ------------------------------------------------ process_data.clean_data
\* df["categories"].str.split(";", expand=True): one row of tokens per row of
\* df, each padded with missing values to the longest row's length
SplitExpand(df) ==
  LET pos == CHOOSE i \in ColumnPositions(df, S_categories) : TRUE
      toks == [k \in 1..Len(df.rows) |-> Split(df.rows[k][pos], ";")]
      width == Max({0} \cup {Len(toks[k]) : k \in 1..Len(toks)})
  IN [k \in 1..Len(toks) |->
        [i \in 1..width |-> IF i <= Len(toks[k]) THEN toks[k][i] ELSE NoneValue]]

\* a variant that names the columns by the last record
ColNamesLastRow(cats) ==
  [i \in 1..Len(cats[Len(cats)]) |-> StripLast2(cats[Len(cats)][i])]

\* row = categories.iloc[0]; category_colnames = row.apply(lambda x: x[:-2])
ColNames(cats) == [i \in 1..Len(cats[1]) |-> StripLast2(cats[1][i])]

\* the column as line 44 leaves it
ColumnLastChars(cats, i) == [k \in 1..Len(cats) |-> LastChar(cats[k][i])]

\* The exception the loop of lines 43-45 raises at column i, "None" if none:
\* categories[column] is a DataFrame when the label is not unique, and has
\* no .str; astype(int) raises on a value that is no digit
ColumnError(names, cats, i) ==
  IF \E j \in 1..Len(names) : j # i /\ names[j] = names[i]
  THEN "AttributeError"
  ELSE IF \E k \in 1..Len(cats) : ~IsDigit(ColumnLastChars(cats, i)[k])
       THEN "ValueError"
       ELSE "None"

ConvertError(names, cats) ==
  LET bad == {i \in 1..Len(names) : ColumnError(names, cats, i) # "None"}
  IN IF bad = {}
     THEN "None"
     ELSE ColumnError(names, cats, CHOOSE i \in bad : \A j \in bad : i <= j)

\* the integer matrix the loop of lines 43-45 leaves in `categories`
Convert(cats) ==
  [k \in 1..Len(cats) |->
     [i \in 1..Len(cats[k]) |-> ParseInt(ColumnLastChars(cats, i)[k])]]

\* df.drop("categories", axis=1, inplace=True)
DropColumn(df, name) ==
  LET keep == SelectSeq([i \in 1..Len(df.cols) |-> i],
                        LAMBDA i : df.cols[i] # name)
  IN [cols |-> [j \in 1..Len(keep) |-> df.cols[keep[j]]],
      rows |-> [k \in 1..Len(df.rows) |->
                  [j \in 1..Len(keep) |-> df.rows[k][keep[j]]]]]

\* pd.concat([df, categories], axis=1)
Concat(df, names, matrix) ==
  [cols |-> df.cols \o names,
   rows |-> [k \in 1..Len(df.rows) |-> df.rows[k] \o matrix[k]]]

\* a variant that leaves the related column as decoded
ReplaceRelatedIdentity(df) == df

\* df["related"].replace(2, 1, inplace=True), with the pandas semantics the
\* code relies on: the in-place replace on the column reaches df
ReplaceRelated(df) ==
  [df EXCEPT !.rows =
     [k \in 1..Len(df.rows) |->
        [i \in 1..Len(df.cols) |->
           IF df.cols[i] = S_related /\ df.rows[k][i] = 2
           THEN 1
           ELSE df.rows[k][i]]]]

\* The outcome of clean_data(df): the exception raised ("None" if it
\* returns), the dataframe returned, and the caller's dataframe object as the
\* call leaves it
CleanData(df) ==
  IF ColumnPositions(df, S_categories) = {}
  THEN [error |-> "KeyError", out |-> NoDF, arg |-> df]
  ELSE
  LET cats == SplitExpand(df)
  IN IF cats = <<>>
     THEN [error |-> "IndexError", out |-> NoDF, arg |-> df]
     ELSE IF \E i \in 1..Len(cats[1]) : cats[1][i] = NoneValue
     THEN [error |-> "TypeError", out |-> NoDF, arg |-> df]
     ELSE
       LET names == ColNames(cats)
           err == ConvertError(names, cats)
       IN IF err # "None"
          THEN [error |-> err, out |-> NoDF, arg |-> df]
          ELSE
            LET dropped == DropColumn(df, S_categories)
                joined == Concat(dropped, names, Convert(cats))
            IN IF ColumnPositions(joined, S_related) = {}
               THEN [error |-> "KeyError", out |-> NoDF, arg |-> dropped]
               ELSE [error |-> "None",
                     out |-> DropDuplicates(ReplaceRelated(joined)),
                     arg |-> dropped]

\* ------------------------------------------------------ input files
Ids == {1, 2}

\* a row of the messages CSV: id, message, original, genre
MessageRows == {<<i, "Water is needed", "original", "direct">> : i \in Ids}

NameA == <<"a">>
NameB == <<"b">>

Token(name, d) == name \o <<"-", d>>

RECURSIVE Join(_)
Join(tokens) ==
  IF Len(tokens) = 0 THEN <<>>
  ELSE IF Len(tokens) = 1 THEN tokens[1]
  ELSE tokens[1] \o <<";">> \o Join(Tail(tokens))

\* the i-th category of a full-width categories text: "related" comes first
CatName(i) ==
  IF i = 1 THEN S_related
  ELSE <<"c", DigitChars[(i \div 10) + 1], DigitChars[(i % 10) + 1]>>

FullText(d) ==
  Join([i \in 1..NumCategories |-> Token(CatName(i), IF i = 1 THEN d ELSE "0")])

\* the categories texts a row of the categories CSV may carry
CategoryTexts ==
  { FullText("1"), FullText("2"),
    Join(<<Token(S_related, "1"), Token(NameA, "0")>>),
    Join(<<Token(S_related, "2"), Token(NameA, "0")>>),
    Join(<<Token(S_related, "3"), Token(NameA, "2")>>),
    Join(<<Token(NameA, "1"), Token(S_related, "0")>>),
    Join(<<Token(S_related, "1")>>),
    Join(<<Token(NameA, "1"), Token(NameA, "0")>>),
    Join(<<Token(NameA, "1"), Token(NameB, "0")>>) }

CategoryRows == {<<i, t>> : i \in Ids, t \in CategoryTexts}

SeqsUpTo(S, n) == UNION {[1..k -> S] : k \in 0..n}

MessagesFiles == SeqsUpTo(MessageRows, MaxMsgRows)
CategoriesFiles == SeqsUpTo(CategoryRows, MaxCatRows)

\* a table a previous run left in the database: k label columns, n rows
GenTable(k, n) ==
  [cols |-> MessagesCols \o [i \in 1..k |-> CatName(i)],
   rows |-> [r \in 1..n |->
               <<r, "Water is needed", "original", "direct">>
               \o [i \in 1..k |-> 0]]]

PriorTables ==
  {NoDF, GenTable(NumCategories, 0), GenTable(NumCategories, MaxPriorRows),
   GenTable(NumCategories - 1, MaxPriorRows)}

\* ------------------------------------------------------------- state
VARIABLES
  dbTable,      \* the messages_categories table of the database, NoDF if none
  dbPrior,      \* the table as it was before either program ran
  dbWrites,     \* the number of to_sql calls made
  modelFile,    \* the model file: "absent", "prior" (an older model) or "model"
  modelOpens,   \* the number of times the model file was opened for writing
  etl_pc,       \* process_data.main: "start", "load", "clean", "save",
                \*   "done", "usage", "failed"
  etl_stdout,   \* what process_data.main printed
  etl_error,    \* the exception that ended process_data.main, "None" if none
  dfPassed,     \* the dataframe load_data returned, as it was passed to clean_data
  dfLoaded,     \* that same dataframe object, as it is now
  dfCleaned,    \* the dataframe clean_data returned
  train_pc,     \* train_classifier.main: "start", "load", "split", "fit",
                \*   "evaluate", "save", "done", "usage", "failed"
  train_stdout, \* what train_classifier.main printed
  train_error,  \* the exception that ended train_classifier.main
  train_data,   \* X, Y, category_names as load_data returned them
  train_split   \* the sizes of the train and test parts

vars == <<dbTable, dbPrior, dbWrites, modelFile, modelOpens,
          etl_pc, etl_stdout, etl_error, dfPassed, dfLoaded, dfCleaned,
          train_pc, train_stdout, train_error, train_data, train_split>>

dbVars == <<dbTable, dbPrior, dbWrites>>
modelVars == <<modelFile, modelOpens>>
etlVars == <<etl_pc, etl_stdout, etl_error, dfPassed, dfLoaded, dfCleaned>>
trainVars == <<train_pc, train_stdout, train_error, train_data, train_split>>

NoData == [X |-> <<>>, Y |-> <<>>, category_names |-> <<>>]
NoSplit == [n_train |-> 0, n_test |-> 0]

\* a program that is not in the middle of a run; the two programs are batch
\* commands run one at a time, and data flows forward: the ETL run, if there
\* is one, comes before the training run
Idle(pc) == pc \in {"start", "done", "usage", "failed"}

\* the exit status of the interpreter: 1 after an uncaught exception, 0 when
\* main() returns
ExitStatus(pc) == IF pc = "failed" THEN 1 ELSE 0

Init ==
  /\ dbTable \in PriorTables
  /\ dbPrior = dbTable
  /\ dbWrites = 0
  /\ modelFile \in {"absent", "prior"}
  /\ modelOpens = 0
  /\ etl_pc = "start"
  /\ etl_stdout = <<>>
  /\ etl_error = "None"
  /\ dfPassed = NoDF
  /\ dfLoaded = NoDF
  /\ dfCleaned = NoDF
  /\ train_pc = "start"
  /\ train_stdout = <<>>
  /\ train_error = "None"
  /\ train_data = NoData
  /\ train_split = NoSplit

\* ------------------------------------------------- process_data.main
\* len(sys.argv) == 4, else the usage message
ETL_Main ==
  /\ etl_pc = "start"
  /\ train_pc = "start"
  /\ \E argc \in {ETLArgc - 1, ETLArgc, ETLArgc + 1} :
       IF argc = ETLArgc
       THEN /\ etl_pc' = "load"
            /\ etl_stdout' = Append(etl_stdout, "Loading data...")
       ELSE /\ etl_pc' = "usage"
            /\ etl_stdout' = Append(etl_stdout, "Please provide the filepaths")
  /\ UNCHANGED <<etl_error, dfPassed, dfLoaded, dfCleaned>>
  /\ UNCHANGED <<dbVars, modelVars, trainVars>>

\* a variant in which main goes on after an exception
ETLAfterSwallow(error, next) == next

\* where main is after a step that ended with `error`: an exception leaves main
ETLAfter(error, next) == IF error = "None" THEN next ELSE "failed"

\* df = load_data(messages_filepath, categories_filepath); a file that cannot
\* be read makes read_csv raise
ETL_LoadData ==
  /\ etl_pc = "load"
  /\ \/ /\ etl_error' = "FileNotFoundError"
        /\ etl_pc' = ETLAfter("FileNotFoundError", "clean")
        /\ UNCHANGED <<etl_stdout, dfPassed, dfLoaded>>
     \/ \E messages \in MessagesFiles, categories \in CategoriesFiles :
          /\ dfLoaded' = LoadData(messages, categories)
          /\ dfPassed' = dfLoaded'
          /\ etl_pc' = ETLAfter("None", "clean")
          /\ etl_stdout' = Append(etl_stdout, "Cleaning data...")
          /\ UNCHANGED etl_error
  /\ UNCHANGED dfCleaned
  /\ UNCHANGED <<dbVars, modelVars, trainVars>>

\* df = clean_data(df)
ETL_CleanData ==
  /\ etl_pc = "clean"
  /\ LET res == CleanData(dfLoaded)
     IN /\ dfLoaded' = res.arg
        /\ dfCleaned' = res.out
        /\ etl_error' = res.error
        /\ etl_pc' = ETLAfter(res.error, "save")
        /\ etl_stdout' = IF res.error = "None"
                         THEN Append(etl_stdout, "Saving data...")
                         ELSE etl_stdout
  /\ UNCHANGED dfPassed
  /\ UNCHANGED <<dbVars, modelVars, trainVars>>

\* df.to_sql("messages_categories", engine, index=False, if_exists="replace")
SaveData(df, table) == df

\* save_data(df, database_filepath)
ETL_SaveData ==
  /\ etl_pc = "save"
  /\ dbTable' = SaveData(dfCleaned, dbTable)
  /\ dbWrites' = dbWrites + 1
  /\ etl_pc' = "done"
  /\ etl_stdout' = Append(etl_stdout, "Cleaned data saved to database!")
  /\ UNCHANGED <<dbPrior, etl_error, dfPassed, dfLoaded, dfCleaned>>
  /\ UNCHANGED <<modelVars, trainVars>>

\* -------------------------------------------- train_classifier.load_data
\* X = df["message"].values; Y = df.iloc[:, 4:].values;
\* category_names = df.columns[4:]
ReadTable(table) ==
  LET pos == CHOOSE i \in ColumnPositions(table, S_message) : TRUE
  IN [X |-> [k \in 1..Len(table.rows) |-> table.rows[k][pos]],
      Y |-> [k \in 1..Len(table.rows) |->
               SubSeq(table.rows[k], NumBaseCols + 1, Len(table.cols))],
      category_names |-> SubSeq(table.cols, NumBaseCols + 1, Len(table.cols))]

\* Y.shape[1]: the width of the label matrix, which numpy keeps for a matrix
\* without rows
YColumns(table) == Len(table.cols) - NumBaseCols

\* a variant without the assertion
AssertCategoriesOff(table) == TRUE

\* assert Y.shape[1] == len(category_names) == 36
AssertCategories(table) ==
  /\ YColumns(table) = Len(ReadTable(table).category_names)
  /\ Len(ReadTable(table).category_names) = NumCategories

\* the exception load_data(database_filepath) raises, "None" if it returns:
\* read_sql_table raises ValueError when the table does not exist
TrainLoadError(table) ==
  IF table = NoDF THEN "ValueError"
  ELSE IF ColumnPositions(table, S_message) = {} THEN "KeyError"
  ELSE IF ~AssertCategories(table) THEN "AssertionError"
  ELSE "None"

\* train_test_split(X, Y, test_size=0.2): the test part gets ceil(0.2 * n)
\* samples and the train part the rest; it raises ValueError when the train
\* part would be empty
SplitSizes(n) ==
  LET n_test == (n + 4) \div 5
  IN [n_train |-> n - n_test, n_test |-> n_test]

TrainSplitError(n) == IF SplitSizes(n).n_train = 0 THEN "ValueError" ELSE "None"

\* ---------------------------------------------- train_classifier.main
Train_Main ==
  /\ train_pc = "start"
  /\ Idle(etl_pc)
  /\ \E argc \in {TrainArgc - 1, TrainArgc, TrainArgc + 1} :
       IF argc = TrainArgc
       THEN /\ train_pc' = "load"
            /\ train_stdout' = Append(train_stdout, "Loading data...")
       ELSE /\ train_pc' = "usage"
            /\ train_stdout' = Append(train_stdout, "Please provide the filepath")
  /\ UNCHANGED <<train_error, train_data, train_split>>
  /\ UNCHANGED <<dbVars, modelVars, etlVars>>

\* where main is after a step that ended with `error`
TrainAfter(error, next) == IF error = "None" THEN next ELSE "failed"

\* X, Y, category_names = load_data(database_filepath)
Train_LoadData ==
  /\ train_pc = "load"
  /\ LET err == TrainLoadError(dbTable)
     IN /\ train_error' = err
        /\ train_pc' = TrainAfter(err, "split")
        /\ train_data' = IF err = "None" THEN ReadTable(dbTable) ELSE train_data
  /\ UNCHANGED <<train_stdout, train_split>>
  /\ UNCHANGED <<dbVars, modelVars, etlVars>>

\* X_train, X_test, Y_train, Y_test = train_test_split(...)
Train_Split ==
  /\ train_pc = "split"
  /\ LET err == TrainSplitError(Len(train_data.X))
     IN /\ train_error' = err
        /\ train_pc' = TrainAfter(err, "fit")
        /\ train_split' = IF err = "None"
                          THEN SplitSizes(Len(train_data.X))
                          ELSE train_split
        /\ train_stdout' = IF err = "None"
                           THEN train_stdout \o <<"Building model...", "Training model...">>
                           ELSE train_stdout
  /\ UNCHANGED train_data
  /\ UNCHANGED <<dbVars, modelVars, etlVars>>

\* model = build_model(); model.fit(X_train, Y_train): the grid search either
\* returns or raises
Train_Fit ==
  /\ train_pc = "fit"
  /\ \E err \in {"None", "ValueError"} :
       /\ train_error' = err
       /\ train_pc' = TrainAfter(err, "evaluate")
       /\ train_stdout' = IF err = "None"
                          THEN Append(train_stdout, "Evaluating model...")
                          ELSE train_stdout
  /\ UNCHANGED <<train_data, train_split>>
  /\ UNCHANGED <<dbVars, modelVars, etlVars>>

\* evaluate_model(model, X_test, Y_test, category_names): predict and
\* classification_report either return or raise
Train_Evaluate ==
  /\ train_pc = "evaluate"
  /\ \E err \in {"None", "ValueError"} :
       /\ train_error' = err
       /\ train_pc' = TrainAfter(err, "save")
       /\ train_stdout' = IF err = "None"
                          THEN Append(train_stdout, "Saving model...")
                          ELSE train_stdout
  /\ UNCHANGED <<train_data, train_split>>
  /\ UNCHANGED <<dbVars, modelVars, etlVars>>

\* save_model(model, model_filepath): pickle.dump(model, open(path, "wb"))
Train_SaveModel ==
  /\ train_pc = "save"
  /\ modelFile' = "model"
  /\ modelOpens' = modelOpens + 1
  /\ train_pc' = "done"
  /\ train_stdout' = Append(train_stdout, "Trained model saved!")
  /\ UNCHANGED <<train_error, train_data, train_split>>
  /\ UNCHANGED <<dbVars, etlVars>>

\* ------------------------------------------------------- specification
Next ==
  \/ ETL_Main
  \/ ETL_LoadData
  \/ ETL_CleanData
  \/ ETL_SaveData
  \/ Train_Main
  \/ Train_LoadData
  \/ Train_Split
  \/ Train_Fit
  \/ Train_Evaluate
  \/ Train_SaveModel

Spec == Init /\ [][Next]_vars

\* ----------------------------------------------------------- properties
\* clean_data(df) has just returned a dataframe to main; dfPassed, dfLoaded
\* and dfCleaned stay as they are from here on
Returned == etl_pc = "save"

\* clean_data(df) has just returned or raised
CleanRan ==
  \/ Returned
  \/ etl_pc = "failed" /\ etl_error # "FileNotFoundError" /\ train_pc = "start"

\* the tokens of each row of the dataframe passed to clean_data
RawTokens ==
  LET pos == CHOOSE i \in ColumnPositions(dfPassed, S_categories) : TRUE
  IN [k \in 1..Len(dfPassed.rows) |-> Split(dfPassed.rows[k][pos], ";")]

PassedRows == 1..Len(dfPassed.rows)
CleanedRows == 1..Len(dfCleaned.rows)

\* the positions of the decoded category columns in the cleaned dataframe
LabelPositions == (NumBaseCols + 1)..Len(dfCleaned.cols)

\* C1: the dataframe clean_data returns holds no two rows equal in every column
C1_NoDuplicateRows ==
  Returned =>
    \A i \in CleanedRows, j \in CleanedRows :
      i # j => dfCleaned.rows[i] # dfCleaned.rows[j]

\* two rows that differ before decoding are one row after the 2 -> 1 remap
C1_Witness ==
  /\ Returned
  /\ Len(dfPassed.rows) = 2
  /\ Len(dfCleaned.rows) = 1

\* some record carries the token related-2
HasRelated2 ==
  LET toks == RawTokens
  IN \E k \in PassedRows : \E i \in 1..Len(toks[k]) :
       toks[k][i] = Token(S_related, "2")

RelatedValues ==
  {dfCleaned.rows[k][p] : k \in CleanedRows, p \in ColumnPositions(dfCleaned, S_related)}

\* the final characters of the tokens at the position the first record gives
\* to related
RelatedDigits ==
  LET toks == RawTokens
  IN {LastChar(toks[k][i]) :
        k \in PassedRows,
        i \in {p \in 1..Len(toks[1]) : StripLast2(toks[1][p]) = S_related}}

C3_Original ==
  Returned =>
    /\ Len(RawTokens[1]) = NumCategories
    /\ Len(dfCleaned.cols) - NumBaseCols = NumCategories

\* two records split into different numbers of tokens
TokenCountsDiffer ==
  LET toks == RawTokens
  IN \E k \in PassedRows, l \in PassedRows : Len(toks[k]) # Len(toks[l])

\* C4 as stated: records with different token counts make clean_data raise
\* ShapeError and return no dataset
C4_Original ==
  (CleanRan /\ TokenCountsDiffer) =>
    etl_error = "ShapeError" /\ dfCleaned = NoDF

\* C5: a run that ended with an exception wrote no output: the ETL run left
\* the table as it was, the training run did not open the model file
C5_NoOutputAfterError ==
  /\ etl_error # "None" => (dbWrites = 0 /\ dbTable = dbPrior)
  /\ train_error # "None" => (modelOpens = 0 /\ modelFile \in {"absent", "prior"})

\* clean_data raised over a prior table, and the grid search raised over a
\* prior model
C5_Witness ==
  /\ etl_pc = "failed" /\ etl_error = "TypeError" /\ dbTable # NoDF
  /\ train_pc = "failed" /\ train_split # NoSplit /\ modelFile = "prior"

\* C6 as stated: a wrong argument count prints the usage message, exits with
\* a status other than 0 and runs no step
C6_Original ==
  /\ etl_pc = "usage" =>
       /\ etl_stdout = <<"Please provide the filepaths">>
       /\ ExitStatus(etl_pc) # 0
       /\ dfPassed = NoDF /\ dfCleaned = NoDF /\ dbWrites = 0
  /\ train_pc = "usage" =>
       /\ train_stdout = <<"Please provide the filepath">>
       /\ ExitStatus(train_pc) # 0
       /\ train_data = NoData /\ modelOpens = 0

\* C7 as stated: the dataframe passed to clean_data is, after the call, as it
\* was before the call
C7_Original == CleanRan => dfLoaded = dfPassed

LabelValues ==
  {dfCleaned.rows[k][i] : k \in CleanedRows, i \in LabelPositions}

TokensBinary ==
  LET toks == RawTokens
  IN \A k \in PassedRows : \A i \in 1..Len(toks[k]) :
       \/ LastChar(toks[k][i]) \in {<<"0">>, <<"1">>}
       \/ /\ LastChar(toks[k][i]) = <<"2">>
          /\ StripLast2(toks[1][i]) = S_related

TableFit ==
  /\ dbTable # NoDF
  /\ YColumns(dbTable) = NumCategories
  /\ Len(dbTable.rows) > 0

\* C9: the training run gets past load_data only over a table of 36 label
\* columns, gets to fit only when that table also has rows, and opens the
\* model file only then
C9_FitOnlyOnFullTable ==
  /\ train_pc = "split" => (dbTable # NoDF /\ YColumns(dbTable) = NumCategories)
  /\ train_pc \in {"fit", "evaluate", "save", "done"} => TableFit
  /\ modelOpens > 0 => TableFit
  /\ (train_pc \in {"fit", "evaluate", "save", "done"}) =>
       /\ Len(train_data.category_names) = NumCategories
       /\ Len(train_data.X) > 0
       /\ \A k \in 1..Len(train_data.Y) : Len(train_data.Y[k]) = NumCategories

\* the ETL run saved a table that has not 36 label columns, and the training
\* run failed on it
C9_Witness ==
  /\ dbWrites = 1
  /\ train_pc = "failed"
  /\ train_error = "AssertionError"
  /\ modelOpens = 0

\* the integer a token's final character stands for
DigitOf(token) ==
  LET c == token[Len(token)]
  IN CASE c = "0" -> 0 [] c = "1" -> 1 [] c = "2" -> 2 [] c = "3" -> 3
       [] c = "4" -> 4 [] c = "5" -> 5 [] c = "6" -> 6 [] c = "7" -> 7
       [] c = "8" -> 8 [] c = "9" -> 9

\* the cleaned columns are named by the first record's tokens, in order
NamedByFirstRecord(toks) ==
  /\ Len(dfCleaned.cols) = NumBaseCols + Len(toks[1])
  /\ \A i \in 1..Len(toks[1]) :
       dfCleaned.cols[NumBaseCols + i] = StripLast2(toks[1][i])

\* cleaned row o is record k decoded by position, Fix(name, v) being what is
\* stored for the digit v in the field `name`
DecodedAs(o, k, toks, Fix(_, _)) ==
  /\ SubSeq(dfCleaned.rows[o], 1, NumBaseCols) = SubSeq(dfPassed.rows[k], 1, NumBaseCols)
  /\ \A i \in 1..Len(toks[k]) :
       dfCleaned.rows[o][NumBaseCols + i]
         = Fix(dfCleaned.cols[NumBaseCols + i], DigitOf(toks[k][i]))

Positional(Fix(_, _)) ==
  LET toks == RawTokens
  IN /\ NamedByFirstRecord(toks)
     /\ \A k \in PassedRows : \E o \in CleanedRows : DecodedAs(o, k, toks, Fix)
     /\ \A o \in CleanedRows : \E k \in PassedRows : DecodedAs(o, k, toks, Fix)

AsIs(name, v) == v

Remapped(name, v) == IF name = S_related /\ v = 2 THEN 1 ELSE v

\* C10 as stated: the field named by the first record's i-th token holds the
\* digit of the record's own i-th token
C10_Original == Returned => Positional(AsIs)

\* C10, amended: the field named by the first record's i-th token holds the
\* digit of the record's own i-th token, except that the field related holds
\* 1 for the digit 2
C10_PositionalDecoding == Returned => Positional(Remapped)

\* a record lists the names in another order than the first record
C10_Witness ==
  /\ Returned
  /\ LET toks == RawTokens
     IN \E k \in PassedRows : \E i \in 1..Len(toks[k]) :
          StripLast2(toks[k][i]) # StripLast2(toks[1][i])

====
